---- MODULE Spec2Model ----
(***************************************************************************)
(* Merchant access lifecycle of the salon booking platform                 *)
(* (server/postgres-storage.ts): grant, renew, suspend, expiry sweep,      *)
(* access statistics and the record updates that touch the merchants table.*)
(*                                                                         *)
(* Time is counted in whole days.  A handler that awaits the database      *)
(* more than once is one action per database statement; the statements of  *)
(* different requests interleave freely (Spec).  SeqSpec runs every        *)
(* handler to completion before the next one starts.                       *)
(* The updatedAt column is not modelled: no handler reads it.              *)
(*                                                                         *)
(* FormSpec is the merchant signup form of the client                      *)
(* (client/src/components/auth/merchant-signup-form.tsx): plan selection,  *)
(* PIX charge, the status polling loop with its 30-minute ceiling and the  *)
(* registration request.  One action per event-loop turn: a user event, a  *)
(* timer callback or the continuation of an await.  FairFormSpec adds      *)
(* that timers fire.                                                       *)
(*                                                                         *)
(* MailSpec is the email service (the nodemailer module): the three send   *)
(* functions, each one action up to its await of transporter.sendMail and  *)
(* one for what follows the transport's answer.                            *)
(***************************************************************************)
EXTENDS Integers, FiniteSets, Sequences, TLC

\* ---------------------------------------------------------------- bounds
MaxTime == 2               \* the clock runs over days 0..MaxTime
MaxDuration == 2           \* durationDays arguments are 1..MaxDuration
MaxOps == 2                \* handler invocations in one behaviour
MaxPolls == 2              \* interval ticks that fit before the ceiling
MaxSignups == 2            \* handleSignup calls of one signup form

\* ------------------------------------------------------------- constants
Null == -1                 \* SQL NULL / JS null of a nullable column
Undefined == -2            \* an omitted optional argument
DefaultDurationDays == 30  \* accessDurationDays column default, `|| 30`
DefaultMonthlyFee == 5000  \* monthlyFee column default

IdOrder == <<"m1", "m2">>   \* the merchant ids, in the order they are created
Ids == { IdOrder[i] : i \in 1..Len(IdOrder) }
Durations == 1..MaxDuration
FeeArgs == {Undefined, 0}
RenewProcs == {1, 2}       \* slots for overlapping renewMerchantAccess calls
SweepProcs == {1, 2}       \* slots for overlapping processExpiredAccess calls

VARIABLES
    merchants,   \* the merchants table: id -> row, for the ids that exist
    clock,       \* current day (new Date())
    renew,       \* renewMerchantAccess requests in flight
    sweep,       \* processExpiredAccess invocations in flight
    upd,         \* the updateMerchant request in flight
    susp,        \* the suspendMerchantAccess request in flight
    grantedIds,  \* history: ids whose row was last written by a grant
    form,        \* the merchant signup form (one browser page) and its timers
    mail,        \* the email service: its credentials and its sendMail calls
    ops,         \* number of handler invocations so far
    last         \* the statement executed last and what its handler returned

storageVars ==
    <<merchants, clock, renew, sweep, upd, susp, grantedIds, ops, last>>

vars == <<storageVars, form, mail>>

\* ------------------------------------------------------------ pure parts

\* Date.setDate(d): the day of the month set to d, getDate() forgotten
SetDateOnly(t, d) == d

\* Date.setDate(getDate() + d): the date d calendar days later
AddDays(t, d) == t + d

\* row inserted by createMerchant; omitted columns take the schema defaults
NewMerchant(ps) ==
    [ status |-> "pending",
      paymentStatus |-> ps,
      accessStartDate |-> Null,
      accessEndDate |-> Null,
      accessDurationDays |-> DefaultDurationDays,
      lastPaymentDate |-> Null,
      nextPaymentDue |-> Null,
      monthlyFee |-> DefaultMonthlyFee ]

\* grantMerchantAccess testing `if (monthlyFee)`: a fee of 0 is not stored
GrantUpdatesFeeIfTruthy(row, now, durationDays, monthlyFee) ==
    [row EXCEPT
       !.status = "active",
       !.accessStartDate = now,
       !.accessEndDate = AddDays(now, durationDays),
       !.accessDurationDays = durationDays,
       !.lastPaymentDate = now,
       !.nextPaymentDue = AddDays(AddDays(now, durationDays), durationDays),
       !.paymentStatus = "paid",
       !.monthlyFee = IF monthlyFee # Undefined /\ monthlyFee # 0
                        THEN monthlyFee ELSE @]

\* grantMerchantAccess writing in two statements, this being the first:
\* the status columns now, the window and billing dates later
GrantUpdatesStatusFirst(row, now, durationDays, monthlyFee) ==
    [row EXCEPT !.status = "active", !.paymentStatus = "paid"]

\* grantMerchantAccess with nextPaymentDue counted from now instead of from
\* accessEndDate
GrantUpdatesDueFromNow(row, now, durationDays, monthlyFee) ==
    [row EXCEPT
       !.status = "active",
       !.accessStartDate = now,
       !.accessEndDate = now + durationDays,
       !.accessDurationDays = durationDays,
       !.lastPaymentDate = now,
       !.nextPaymentDue = now + durationDays,
       !.paymentStatus = "paid",
       !.monthlyFee = IF monthlyFee # Undefined THEN monthlyFee ELSE @]

\* grantMerchantAccess: the row after the UPDATE ... SET updates
GrantUpdates(row, now, durationDays, monthlyFee) ==
    LET accessEndDate == AddDays(now, durationDays)
        nextPaymentDue == AddDays(accessEndDate, durationDays)
        granted == [row EXCEPT
                      !.status = "active",
                      !.accessStartDate = now,
                      !.accessEndDate = accessEndDate,
                      !.accessDurationDays = durationDays,
                      !.lastPaymentDate = now,
                      !.nextPaymentDue = nextPaymentDue,
                      !.paymentStatus = "paid"]
    IN  IF monthlyFee # Undefined
          THEN [granted EXCEPT !.monthlyFee = monthlyFee]
          ELSE granted

\* suspendMerchantAccess closing the access window along with the status
SuspendUpdatesEndWindow(row) ==
    [row EXCEPT !.status = "payment_pending",
                !.accessEndDate = Null,
                !.nextPaymentDue = Null]

\* suspendMerchantAccess: the row after the UPDATE
SuspendUpdates(row) == [row EXCEPT !.status = "payment_pending"]

\* renewMerchantAccess counting the stored end date of an active merchant
\* only: a suspended merchant is renewed from now
CurrentEndDateIfActive(merchant, now) ==
    IF merchant.accessEndDate # Null /\ merchant.status = "active"
      THEN merchant.accessEndDate
      ELSE now

\* renewMerchantAccess: merchant.accessEndDate ? new Date(...) : now
CurrentEndDate(merchant, now) ==
    IF merchant.accessEndDate # Null THEN merchant.accessEndDate ELSE now

\* renewMerchantAccess extending from now whatever the current end date
BaseDateNow(merchant, now) == now

\* renewMerchantAccess: currentEndDate > now ? currentEndDate : now
BaseDate(merchant, now) ==
    IF CurrentEndDate(merchant, now) > now
      THEN CurrentEndDate(merchant, now)
      ELSE now

\* renewMerchantAccess: merchant.accessDurationDays || 30
RenewDurationDays(merchant) ==
    IF merchant.accessDurationDays = Null \/ merchant.accessDurationDays = 0
      THEN DefaultDurationDays
      ELSE merchant.accessDurationDays

\* renewMerchantAccess: newEndDate
NewEndDate(merchant, now) ==
    AddDays(BaseDate(merchant, now), RenewDurationDays(merchant))

\* renewMerchantAccess restarting the window: accessStartDate always now
RenewUpdatesRestart(row, merchant, now) ==
    [row EXCEPT
       !.status = "active",
       !.accessStartDate = now,
       !.accessEndDate = NewEndDate(merchant, now),
       !.lastPaymentDate = now,
       !.nextPaymentDue = AddDays(NewEndDate(merchant, now),
                                  RenewDurationDays(merchant)),
       !.paymentStatus = "paid"]

\* renewMerchantAccess storing now, not newEndDate, as the end date
RenewUpdatesEndIsNow(row, merchant, now) ==
    [row EXCEPT
       !.status = "active",
       !.accessStartDate = IF merchant.accessStartDate # Null
                             THEN merchant.accessStartDate ELSE now,
       !.accessEndDate = now,
       !.lastPaymentDate = now,
       !.nextPaymentDue = now + 2 * merchant.accessDurationDays,
       !.paymentStatus = "paid"]

\* renewMerchantAccess: the stored row after the UPDATE, whose values were
\* computed from the row `merchant` read earlier and the `now` taken then
RenewUpdates(row, merchant, now) ==
    [row EXCEPT
       !.status = "active",
       !.accessStartDate = IF merchant.accessStartDate # Null
                             THEN merchant.accessStartDate ELSE now,
       !.accessEndDate = NewEndDate(merchant, now),
       !.lastPaymentDate = now,
       !.nextPaymentDue = AddDays(NewEndDate(merchant, now),
                                  RenewDurationDays(merchant)),
       !.paymentStatus = "paid"]

\* processExpiredAccess with < in place of <=: the day the window ends is
\* still inside it
SelectExpiredStrict(ms, now) ==
    { m \in DOMAIN ms : /\ ms[m].status = "active"
                        /\ ms[m].accessEndDate # Null
                        /\ ms[m].accessEndDate < now }

\* processExpiredAccess selecting by end date alone, as the expiredAccess
\* count of getMerchantsAccessStatus does
SelectExpiredAnyStatus(ms, now) ==
    { m \in DOMAIN ms : /\ ms[m].accessEndDate # Null
                        /\ ms[m].accessEndDate <= now }

\* processExpiredAccess: WHERE status = 'active' AND access_end_date <= now
\* (a NULL access_end_date never satisfies <=)
SelectExpired(ms, now) ==
    { m \in DOMAIN ms : /\ ms[m].status = "active"
                        /\ ms[m].accessEndDate # Null
                        /\ ms[m].accessEndDate <= now }

\* processExpiredAccess resetting the billing state along with the status
SweepUpdatesResetPayment(row) ==
    [row EXCEPT !.status = "payment_pending", !.paymentStatus = "pending"]

\* processExpiredAccess: UPDATE ... SET status WHERE id = merchant.id
SweepUpdates(row) == [row EXCEPT !.status = "payment_pending"]

\* the activeAccess filter with >= in place of >
ActiveAccessFilterInclusive(m, now) ==
    /\ m.status = "active"
    /\ (m.accessEndDate = Null \/ m.accessEndDate >= now)

\* getMerchantsAccessStatus: the activeAccess filter
ActiveAccessFilter(m, now) ==
    /\ m.status = "active"
    /\ (m.accessEndDate = Null \/ m.accessEndDate > now)

\* getMerchantsAccessStatus: the returned counts
AccessStatus(ms, now) ==
    [ activeAccess |->
        Cardinality({ m \in DOMAIN ms : ActiveAccessFilter(ms[m], now) }),
      expiredAccess |->
        Cardinality({ m \in DOMAIN ms : /\ ms[m].accessEndDate # Null
                                        /\ ms[m].accessEndDate <= now }),
      paymentPending |->
        Cardinality({ m \in DOMAIN ms : ms[m].status = "payment_pending" }),
      trialUsers |->
        Cardinality({ m \in DOMAIN ms : ms[m].paymentStatus = "trial" }) ]

\* processExpiredAccess: expiredMerchants.length
SweepCount(expiredMerchants) == Cardinality(expiredMerchants)

\* PostgreSQLStorage.processExpiredAccess run to completion on table ms at
\* time now: the count it returns and the table it leaves
PostgresProcessExpiredAccess(ms, now) ==
    [ ret |-> SweepCount(SelectExpired(ms, now)),
      merchants |-> [m \in DOMAIN ms |->
                       IF m \in SelectExpired(ms, now)
                         THEN SweepUpdates(ms[m])
                         ELSE ms[m]] ]

\* SQLiteStorage.processExpiredAccess: return 0, no statement is run
SQLiteProcessExpiredAccess(ms, now) ==
    [ ret |-> 0, merchants |-> ms ]

\* updateMerchant: { ...existingMerchant, ...processedUpdates }; a column
\* outside the access lifecycle (name, phone, ...) is not part of the row here
MergeUpdates(existingMerchant, updates) ==
    [ f \in DOMAIN existingMerchant |->
        IF f \in DOMAIN updates THEN updates[f] ELSE existingMerchant[f] ]

\* getMerchant: the row with that id, undefined when there is none
GetMerchant(ms, id) == IF id \in DOMAIN ms THEN ms[id] ELSE Undefined

\* the partial records a caller passes to updateMerchant
MerchantUpdates ==
    { [name |-> "salon"] } \cup
    { [status |-> s] : s \in {"active", "inactive"} }

\* the settings an admin passes to updateMerchantAccessSettings
AccessSettings ==
    { [accessDurationDays |-> Null], [monthlyFee |-> 0] }

\* ------------------------------------------------------ the signup form
\* (client/src/components/auth/merchant-signup-form.tsx)

\* the createPixPayment calls of one form, numbered in the order they are
\* made, each with the charge it creates
PaymentIds == {1, 2}

\* what one status check can come back with; "error" is a failed fetch or
\* an unparsable body, "pending" any answer without a terminal status
CheckResults == {"pending", "approved", "rejected", "cancelled", "error"}

\* a createPixPayment call that was never made
NoPayment ==
    [ create |-> "none",      \* none, inflight, done, failed
      closure |-> FALSE,      \* paymentStatus === 'processing' in the render
                              \* the call closed over
      charge |-> "none",      \* the charge: none, pending, or the terminal
                              \* status the gateway has answered
      loop |-> "none",        \* the setInterval: none, active, stopped
      polls |-> 0,            \* interval ticks fired while the loop runs
      inflight |-> 0,         \* status checks awaiting their answer
      ceiling |-> FALSE,      \* the 30-minute setTimeout is pending
      autoTimers |-> 0,       \* pending 2-second setTimeout(handleSignup)
      autoSubmits |-> 0 ]     \* handleSignup calls made by those timers

\* useState initial values, useForm defaultValues
InitForm ==
    [ step |-> "info",
      planType |-> "trial",
      paymentStatus |-> "pending",
      pixData |-> Null,
      isLoading |-> FALSE,
      made |-> 0,             \* createPixPayment calls so far
      pay |-> [c \in PaymentIds |-> NoPayment],
      signups |-> 0,          \* handleSignup calls so far
      posts |-> 0,            \* registration requests awaiting their answer
      created |-> FALSE,      \* the server accepted a registration request:
                              \* a setTimeout(location.replace) is pending
      gone |-> FALSE ]        \* the page was replaced by /login

\* createPixPayment up to its await fetch: setIsLoading(true) and the POST;
\* `rendered` is the paymentStatus of the render whose handler is running
CreatePixPayment(f, rendered) ==
    [f EXCEPT
       !.isLoading = TRUE,
       !.made = @ + 1,
       !.pay[f.made + 1].create = "inflight",
       !.pay[f.made + 1].closure = (rendered = "processing")]

\* handleSignup up to its await fetch: setIsLoading(true) and the POST
HandleSignup(f) ==
    [f EXCEPT !.isLoading = TRUE, !.signups = @ + 1, !.posts = @ + 1]

\* startPaymentStatusCheck: setInterval and the 30-minute setTimeout
StartPaymentStatusCheck(f, c) ==
    [f EXCEPT !.pay[c].loop = "active", !.pay[c].ceiling = TRUE]

\* the interval callback failing the payment in its catch block
OnStatusErrorFails(f, c, result) ==
    IF result = "approved"
      THEN [f EXCEPT !.paymentStatus = "approved",
                     !.pay[c].loop = "stopped",
                     !.pay[c].polls = 0,
                     !.pay[c].autoTimers = @ + 1]
      ELSE IF result \in {"rejected", "cancelled", "error"}
        THEN [f EXCEPT !.paymentStatus = "failed",
                       !.pay[c].loop = "stopped",
                       !.pay[c].polls = 0]
        ELSE f

\* the interval callback without the cancelled case
OnStatusRejectedOnly(f, c, result) ==
    IF result = "approved"
      THEN [f EXCEPT !.paymentStatus = "approved",
                     !.pay[c].loop = "stopped",
                     !.pay[c].polls = 0,
                     !.pay[c].autoTimers = @ + 1]
      ELSE IF result = "rejected"
        THEN [f EXCEPT !.paymentStatus = "failed",
                       !.pay[c].loop = "stopped",
                       !.pay[c].polls = 0]
        ELSE f

\* the interval callback after its awaits: what it does with result.status
OnStatus(f, c, result) ==
    IF result = "approved"
      THEN [f EXCEPT !.paymentStatus = "approved",
                     !.pay[c].loop = "stopped",
                     !.pay[c].polls = 0,
                     !.pay[c].autoTimers = @ + 1]
      ELSE IF result \in {"rejected", "cancelled"}
        THEN [f EXCEPT !.paymentStatus = "failed",
                       !.pay[c].loop = "stopped",
                       !.pay[c].polls = 0]
        ELSE f

\* the 30-minute callback with clearInterval inside its if
OnCeilingStopsIfProcessing(f, c) ==
    IF f.pay[c].closure
      THEN [f EXCEPT !.pay[c].loop = "stopped",
                     !.pay[c].polls = 0,
                     !.pay[c].ceiling = FALSE,
                     !.pay[c].closure = FALSE,
                     !.paymentStatus = "failed"]
      ELSE [f EXCEPT !.pay[c].ceiling = FALSE]

\* the 30-minute callback: clearInterval, then the test of the paymentStatus
\* that the callback closed over; the closure is released with the callback
OnCeiling(f, c) ==
    [f EXCEPT
       !.pay[c].loop = "stopped",
       !.pay[c].polls = 0,
       !.pay[c].ceiling = FALSE,
       !.pay[c].closure = FALSE,
       !.paymentStatus = IF f.pay[c].closure THEN "failed" ELSE @]

\* renderPaymentStep: the failed branch with its Tentar Novamente button
RetryOffered(f) == f.step = "payment" /\ f.paymentStatus = "failed"

\* ---------------------------------------------------- the email service

\* sendWelcomeEmail, sendPaymentConfirmationEmail,
\* sendRenewalConfirmationEmail
MailKinds == {"welcome", "paymentConfirmation", "renewalConfirmation"}

\* how transporter.sendMail settles: the transport accepted the message,
\* the promise rejected with an Error, or with a value that is no Error
TransportOutcomes == {"accepted", "Error", "other"}

\* the module after import: EMAIL_USER and EMAIL_PASSWORD set, no call yet
IdleMail ==
    [ user |-> TRUE,
      password |-> TRUE,
      sending |-> [k \in MailKinds |-> 0],    \* calls awaiting sendMail
      accepted |-> [k \in MailKinds |-> 0] ]  \* messages the transport took

\* the send functions without their try/catch: what a send call comes to
\* when it ends with `outcome`
MailResultUncaught(outcome) ==
    IF outcome = "accepted"
      THEN [threw |-> FALSE, ret |-> [success |-> TRUE]]
      ELSE IF outcome = "unconfigured"
        THEN [threw |-> FALSE,
              ret |-> [success |-> FALSE,
                       error |-> "Email credentials not configured"]]
        ELSE [threw |-> TRUE]

\* what a send call comes to when it ends with `outcome`: the return after
\* sendMail, the return of the credentials test, or the catch block's
\* return with error.message or 'Unknown error'
MailResult(outcome) ==
    IF outcome = "accepted"
      THEN [threw |-> FALSE, ret |-> [success |-> TRUE]]
      ELSE IF outcome = "unconfigured"
        THEN [threw |-> FALSE,
              ret |-> [success |-> FALSE,
                       error |-> "Email credentials not configured"]]
        ELSE IF outcome \in {"Error", "TypeError"}
          THEN [threw |-> FALSE,
                ret |-> [success |-> FALSE, error |-> "error.message"]]
          ELSE [threw |-> FALSE,
                ret |-> [success |-> FALSE, error |-> "Unknown error"]]

\* ------------------------------------------------------- process records
IdleRenew == [pc |-> "idle"]
IdleSweep == [pc |-> "idle"]
IdleUpd == [pc |-> "idle"]
IdleSusp == [pc |-> "idle"]

\* a new request takes the first free slot
FirstFree(procs, p, Slots) ==
    /\ procs[p].pc = "idle"
    /\ \A q \in Slots : q < p => procs[q].pc # "idle"

\* rows the table holds when the server starts: merchants that signed up,
\* some of them granted access on day 0
StoredRows ==
    { NewMerchant("pending") } \cup
    { GrantUpdates(NewMerchant("pending"), 0, d, Undefined) : d \in Durations }

Init ==
    /\ \E k \in 0..Len(IdOrder) :
          merchants \in [{ IdOrder[i] : i \in 1..k } -> StoredRows]
    /\ clock = 0
    /\ renew = [p \in RenewProcs |-> IdleRenew]
    /\ sweep = [s \in SweepProcs |-> IdleSweep]
    /\ upd = IdleUpd
    /\ susp = IdleSusp
    /\ grantedIds = { m \in DOMAIN merchants : merchants[m].status = "active" }
    /\ ops = 0
    /\ last = [op |-> "init"]
    /\ form = InitForm
    /\ mail = IdleMail

\* ------------------------------------------------------------- statements

\* time passes
Tick ==
    /\ clock < MaxTime
    /\ clock' = clock + 1
    /\ last' = [op |-> "tick"]
    /\ UNCHANGED <<merchants, renew, sweep, upd, susp, ops, grantedIds, form, mail>>

\* createMerchant: INSERT of a new row under a fresh randomUUID(), an id no
\* request in flight can hold
CreateMerchant(id, ps) ==
    /\ ops < MaxOps
    /\ id \notin DOMAIN merchants
    /\ ~ (susp.pc = "return" /\ susp.id = id)
    /\ \E i \in 1..Len(IdOrder) :
          /\ IdOrder[i] = id
          /\ \A j \in 1..(i - 1) : IdOrder[j] \in DOMAIN merchants
    /\ merchants' = merchants @@ (id :> NewMerchant(ps))
    /\ ops' = ops + 1
    /\ last' = [op |-> "create", id |-> id]
    /\ UNCHANGED <<clock, renew, sweep, upd, susp, grantedIds, form, mail>>

\* grantMerchantAccess written as an upsert: a row is inserted when none
\* matched the id
GrantAccessUpsert(id, d, fee) ==
    /\ ops < MaxOps
    /\ IF id \in DOMAIN merchants
         THEN merchants' = [merchants EXCEPT
                              ![id] = GrantUpdates(@, clock, d, fee)]
         ELSE merchants' = merchants @@
                (id :> GrantUpdates(NewMerchant("pending"), clock, d, fee))
    /\ ops' = ops + 1
    /\ last' = [op |-> "grant", id |-> id, d |-> d, fee |-> fee,
                now |-> clock, found |-> id \in DOMAIN merchants,
                before |-> IF id \in DOMAIN merchants
                             THEN merchants[id] ELSE Null,
                ret |-> merchants'[id]]
    /\ grantedIds' = IF id \in DOMAIN merchants
                       THEN grantedIds \cup {id} ELSE grantedIds
    /\ UNCHANGED <<clock, renew, sweep, upd, susp, form, mail>>

\* grantMerchantAccess: one UPDATE ... RETURNING; null when no row matched
GrantAccess(id, d, fee) ==
    /\ ops < MaxOps
    /\ IF id \in DOMAIN merchants
         THEN merchants' = [merchants EXCEPT
                              ![id] = GrantUpdates(@, clock, d, fee)]
         ELSE merchants' = merchants
    /\ ops' = ops + 1
    /\ last' = [op |-> "grant", id |-> id, d |-> d, fee |-> fee,
                now |-> clock, found |-> id \in DOMAIN merchants,
                before |-> IF id \in DOMAIN merchants
                             THEN merchants[id] ELSE Null,
                ret |-> IF id \in DOMAIN merchants
                          THEN merchants'[id] ELSE Null]
    /\ grantedIds' = IF id \in DOMAIN merchants
                       THEN grantedIds \cup {id} ELSE grantedIds
    /\ UNCHANGED <<clock, renew, sweep, upd, susp, form, mail>>

\* suspendMerchantAccess written as an upsert: a row is inserted when none
\* matched the id
SuspendUpdateUpsert(id) ==
    /\ ops < MaxOps
    /\ susp.pc = "idle"
    /\ IF id \in DOMAIN merchants
         THEN merchants' = [merchants EXCEPT ![id] = SuspendUpdates(@)]
         ELSE merchants' = merchants @@
                (id :> SuspendUpdates(NewMerchant("pending")))
    /\ susp' = [pc |-> "return", id |-> id, found |-> id \in DOMAIN merchants]
    /\ ops' = ops + 1
    /\ last' = [op |-> "suspend", id |-> id, found |-> id \in DOMAIN merchants,
                before |-> GetMerchant(merchants, id)]
    /\ grantedIds' = grantedIds \ {id}
    /\ UNCHANGED <<clock, renew, sweep, upd, form, mail>>

\* suspendMerchantAccess, first statement: UPDATE ... WHERE id
SuspendUpdate(id) ==
    /\ ops < MaxOps
    /\ susp.pc = "idle"
    /\ IF id \in DOMAIN merchants
         THEN merchants' = [merchants EXCEPT ![id] = SuspendUpdates(@)]
         ELSE merchants' = merchants
    /\ susp' = [pc |-> "return", id |-> id, found |-> id \in DOMAIN merchants]
    /\ ops' = ops + 1
    /\ last' = [op |-> "suspend", id |-> id, found |-> id \in DOMAIN merchants,
                before |-> GetMerchant(merchants, id)]
    /\ grantedIds' = grantedIds \ {id}
    /\ UNCHANGED <<clock, renew, sweep, upd, form, mail>>

\* suspendMerchantAccess, second statement: return this.getMerchant(id)
SuspendReturn ==
    /\ susp.pc = "return"
    /\ last' = [op |-> "suspendReturn", id |-> susp.id, found |-> susp.found,
                ret |-> GetMerchant(merchants, susp.id)]
    /\ susp' = IdleSusp
    /\ UNCHANGED <<merchants, clock, renew, sweep, upd, ops, grantedIds, form, mail>>

\* renewMerchantAccess, first statement: SELECT the row, take `now`,
\* return null when there is no row
RenewRead(p, id) ==
    /\ ops < MaxOps
    /\ FirstFree(renew, p, RenewProcs)
    /\ IF id \in DOMAIN merchants
         THEN /\ renew' = [renew EXCEPT ![p] =
                             [pc |-> "write", id |-> id,
                              merchant |-> merchants[id], now |-> clock]]
              /\ last' = [op |-> "renewRead", id |-> id]
         ELSE /\ renew' = renew
              /\ last' = [op |-> "renewNotFound", id |-> id, ret |-> Null]
    /\ ops' = ops + 1
    /\ UNCHANGED <<merchants, clock, sweep, upd, susp, grantedIds, form, mail>>

\* renewMerchantAccess, second statement: UPDATE ... RETURNING
RenewWrite(p) ==
    /\ renew[p].pc = "write"
    /\ merchants' = [merchants EXCEPT ![renew[p].id] =
                       RenewUpdates(@, renew[p].merchant, renew[p].now)]
    /\ last' = [op |-> "renew", id |-> renew[p].id, now |-> renew[p].now,
                read |-> renew[p].merchant,
                before |-> merchants[renew[p].id]]
    /\ renew' = [renew EXCEPT ![p] = IdleRenew]
    /\ grantedIds' = grantedIds \ {renew[p].id}
    /\ UNCHANGED <<clock, sweep, upd, susp, ops, form, mail>>

\* processExpiredAccess, first statement: SELECT the expired active rows
SweepSelect(s) ==
    /\ ops < MaxOps
    /\ FirstFree(sweep, s, SweepProcs)
    /\ sweep' = [sweep EXCEPT ![s] =
                   [pc |-> "loop",
                    expiredMerchants |-> SelectExpired(merchants, clock),
                    todo |-> SelectExpired(merchants, clock),
                    transitioned |-> 0]]
    /\ ops' = ops + 1
    /\ last' = [op |-> "sweepSelect"]
    /\ UNCHANGED <<merchants, clock, renew, upd, susp, grantedIds, form, mail>>

\* processExpiredAccess, loop body: UPDATE the next selected row by id;
\* `transitioned` counts the rows this invocation moved out of active
SweepUpdate(s, id) ==
    /\ sweep[s].pc = "loop"
    /\ id \in sweep[s].todo
    /\ merchants' = [merchants EXCEPT ![id] = SweepUpdates(@)]
    /\ sweep' = [sweep EXCEPT
                   ![s].todo = @ \ {id},
                   ![s].transitioned =
                       IF merchants[id].status = "active" THEN @ + 1 ELSE @]
    /\ last' = [op |-> "sweepUpdate", id |-> id]
    /\ grantedIds' = grantedIds \ {id}
    /\ UNCHANGED <<clock, renew, upd, susp, ops, form, mail>>

\* processExpiredAccess: return expiredMerchants.length
SweepReturn(s) ==
    /\ sweep[s].pc = "loop"
    /\ sweep[s].todo = {}
    /\ last' = [op |-> "sweep",
                ret |-> SweepCount(sweep[s].expiredMerchants),
                transitioned |-> sweep[s].transitioned,
                after |-> last.op]
    /\ sweep' = [sweep EXCEPT ![s] = IdleSweep]
    /\ UNCHANGED <<merchants, clock, renew, upd, susp, ops, grantedIds, form, mail>>

\* updateMerchant, first statement: getMerchant
UpdateRead(id, updates) ==
    /\ ops < MaxOps
    /\ upd.pc = "idle"
    /\ IF id \in DOMAIN merchants
         THEN /\ upd' = [pc |-> "write", id |-> id, updates |-> updates,
                         existingMerchant |-> merchants[id]]
              /\ last' = [op |-> "updateRead", id |-> id]
         ELSE /\ upd' = upd
              /\ last' = [op |-> "updateNotFound", id |-> id]
    /\ ops' = ops + 1
    /\ UNCHANGED <<merchants, clock, renew, sweep, susp, grantedIds, form, mail>>

\* updateMerchant, second statement: UPDATE ... SET the whole merged row
UpdateWrite ==
    /\ upd.pc = "write"
    /\ merchants' = [merchants EXCEPT ![upd.id] =
                       MergeUpdates(upd.existingMerchant, upd.updates)]
    /\ last' = [op |-> "update", id |-> upd.id, updates |-> upd.updates]
    /\ upd' = IdleUpd
    /\ grantedIds' = grantedIds \ {upd.id}
    /\ UNCHANGED <<clock, renew, sweep, susp, ops, form, mail>>

\* updateMerchantAccessSettings: one UPDATE ... SET settings
UpdateAccessSettings(id, settings) ==
    /\ ops < MaxOps
    /\ id \in DOMAIN merchants
    /\ merchants' = [merchants EXCEPT ![id] = MergeUpdates(@, settings)]
    /\ ops' = ops + 1
    /\ last' = [op |-> "settings", id |-> id, settings |-> settings]
    /\ grantedIds' = grantedIds \ {id}
    /\ UNCHANGED <<clock, renew, sweep, upd, susp, form, mail>>

\* getMerchantsAccessStatus: SELECT all rows and count
GetAccessStatus ==
    /\ ops < MaxOps
    /\ ops' = ops + 1
    /\ last' = [op |-> "accessStatus", now |-> clock,
                ret |-> AccessStatus(merchants, clock)]
    /\ UNCHANGED <<merchants, clock, renew, sweep, upd, susp, grantedIds, form, mail>>

Next ==
    \/ Tick
    \/ \E id \in Ids, ps \in {"pending", "trial"} : CreateMerchant(id, ps)
    \/ \E id \in Ids, d \in Durations, fee \in FeeArgs : GrantAccess(id, d, fee)
    \/ \E id \in Ids : SuspendUpdate(id)
    \/ SuspendReturn
    \/ \E p \in RenewProcs, id \in Ids : RenewRead(p, id)
    \/ \E p \in RenewProcs : RenewWrite(p)
    \/ \E s \in SweepProcs : SweepSelect(s)
    \/ \E s \in SweepProcs, id \in Ids : SweepUpdate(s, id)
    \/ \E s \in SweepProcs : SweepReturn(s)
    \/ \E id \in Ids, u \in MerchantUpdates : UpdateRead(id, u)
    \/ UpdateWrite
    \/ \E id \in Ids, st \in AccessSettings : UpdateAccessSettings(id, st)
    \/ GetAccessStatus

Spec == Init /\ [][Next]_vars

\* ------------------------------------------- handlers run one at a time

\* suspendMerchantAccess from UPDATE to the getMerchant it returns with
\* nothing in between
SuspendAccess(id) ==
    /\ ops < MaxOps
    /\ IF id \in DOMAIN merchants
         THEN merchants' = [merchants EXCEPT ![id] = SuspendUpdates(@)]
         ELSE merchants' = merchants
    /\ ops' = ops + 1
    /\ last' = [op |-> "suspend", id |-> id, found |-> id \in DOMAIN merchants,
                before |-> GetMerchant(merchants, id),
                ret |-> GetMerchant(merchants', id)]
    /\ grantedIds' = grantedIds \ {id}
    /\ UNCHANGED <<clock, renew, sweep, upd, susp, form, mail>>

\* renewMerchantAccess from SELECT to UPDATE with nothing in between
SeqRenew(id) ==
    /\ ops < MaxOps
    /\ IF id \in DOMAIN merchants
         THEN /\ merchants' = [merchants EXCEPT ![id] =
                                 RenewUpdates(@, merchants[id], clock)]
              /\ last' = [op |-> "renew", id |-> id, now |-> clock,
                          read |-> merchants[id], before |-> merchants[id]]
         ELSE /\ merchants' = merchants
              /\ last' = [op |-> "renewNotFound", id |-> id, ret |-> Null]
    /\ ops' = ops + 1
    /\ grantedIds' = grantedIds \ {id}
    /\ UNCHANGED <<clock, renew, sweep, upd, susp, form, mail>>

\* processExpiredAccess from SELECT to return with nothing in between
SeqSweep ==
    /\ ops < MaxOps
    /\ LET expiredMerchants == SelectExpired(merchants, clock)
       IN  /\ merchants' = [m \in DOMAIN merchants |->
                              IF m \in expiredMerchants
                                THEN SweepUpdates(merchants[m])
                                ELSE merchants[m]]
           /\ last' = [op |-> "sweep",
                       ret |-> SweepCount(expiredMerchants),
                       transitioned |->
                           Cardinality({ m \in expiredMerchants :
                                           merchants[m].status = "active" }),
                       after |-> last.op]
    /\ ops' = ops + 1
    /\ grantedIds' = grantedIds \ SelectExpired(merchants, clock)
    /\ UNCHANGED <<clock, renew, sweep, upd, susp, form, mail>>

\* updateMerchant from getMerchant to UPDATE with nothing in between
SeqUpdate(id, updates) ==
    /\ ops < MaxOps
    /\ IF id \in DOMAIN merchants
         THEN /\ merchants' = [merchants EXCEPT ![id] =
                                 MergeUpdates(@, updates)]
              /\ last' = [op |-> "update", id |-> id, updates |-> updates]
         ELSE /\ merchants' = merchants
              /\ last' = [op |-> "updateNotFound", id |-> id]
    /\ ops' = ops + 1
    /\ grantedIds' = grantedIds \ {id}
    /\ UNCHANGED <<clock, renew, sweep, upd, susp, form, mail>>

SeqNext ==
    \/ Tick
    \/ \E id \in Ids, ps \in {"pending", "trial"} : CreateMerchant(id, ps)
    \/ \E id \in Ids, d \in Durations, fee \in FeeArgs : GrantAccess(id, d, fee)
    \/ \E id \in Ids : SuspendAccess(id)
    \/ \E id \in Ids : SeqRenew(id)
    \/ SeqSweep
    \/ \E id \in Ids, u \in MerchantUpdates : SeqUpdate(id, u)
    \/ \E id \in Ids, st \in AccessSettings : UpdateAccessSettings(id, st)
    \/ GetAccessStatus

SeqSpec == Init /\ [][SeqNext]_vars

\* ------------------------------------------- the signup form, one page
\* The form validates the info step before the plan step is shown, so
\* formData.email is set whenever createPixPayment is reached.  The
\* isCheckingPayment spinner flag is not modelled: nothing reads it but
\* the spinner.

\* onSubmitInfo.  The plan step's back arrow leads to the info step again,
\* from which only onSubmitInfo leads on and where every timer runs on as
\* it does on the plan step: that detour is not a state of its own here.
OnSubmitInfo ==
    /\ ~ form.gone
    /\ form.step = "info"
    /\ form' = [form EXCEPT !.step = "plan"]
    /\ UNCHANGED <<storageVars, mail>>

\* renderPlanStep: the RadioGroup's onValueChange
SelectPlan(plan) ==
    /\ ~ form.gone
    /\ form.step = "plan"
    /\ form.planType # plan
    /\ form' = [form EXCEPT !.planType = plan]
    /\ UNCHANGED <<storageVars, mail>>

\* onSubmitPlan taking every plan through the payment step
OnSubmitPlanAlwaysPays ==
    /\ ~ form.gone
    /\ form.step = "plan"
    /\ ~ form.isLoading
    /\ form.made + 1 \in PaymentIds
    /\ form' = CreatePixPayment([form EXCEPT !.step = "payment"],
                                form.paymentStatus)
    /\ UNCHANGED <<storageVars, mail>>

\* onSubmitPlan, up to the first await of what it calls
OnSubmitPlan ==
    /\ ~ form.gone
    /\ form.step = "plan"
    /\ ~ form.isLoading
    /\ IF form.planType = "vip"
         THEN /\ form.made + 1 \in PaymentIds
              /\ form' = CreatePixPayment([form EXCEPT !.step = "payment"],
                                          form.paymentStatus)
         ELSE /\ form.signups < MaxSignups
              /\ form' = HandleSignup(form)
    /\ UNCHANGED <<storageVars, mail>>

\* createPixPayment after its awaits: the gateway's answer, or the catch
CreateAnswer(c, success) ==
    /\ ~ form.gone
    /\ form.pay[c].create = "inflight"
    /\ form' =
         IF success
           THEN StartPaymentStatusCheck(
                  [form EXCEPT !.pixData = c,
                               !.paymentStatus = "processing",
                               !.isLoading = FALSE,
                               !.pay[c].create = "done",
                               !.pay[c].charge = "pending"], c)
           ELSE [form EXCEPT !.paymentStatus = "failed",
                             !.isLoading = FALSE,
                             !.pay[c].create = "failed"]
    /\ UNCHANGED <<storageVars, mail>>

\* the interval fires: the callback runs up to its await fetch
PollTick(c) ==
    /\ ~ form.gone
    /\ form.pay[c].loop = "active"
    /\ form.pay[c].polls < MaxPolls
    /\ form' = [form EXCEPT !.pay[c].polls = @ + 1, !.pay[c].inflight = @ + 1]
    /\ UNCHANGED <<storageVars, mail>>

\* a status check comes back: with an error, with pending (the charge is
\* pending, or the answer was overtaken on its way), or with the terminal
\* status of the charge, which the gateway keeps once it has reported it
CheckAnswer(c, result) ==
    /\ ~ form.gone
    /\ form.pay[c].inflight > 0
    /\ \/ result \in {"pending", "error"}
       \/ form.pay[c].charge \in {"pending", result}
    /\ form' = OnStatus([form EXCEPT
                           !.pay[c].inflight = @ - 1,
                           !.pay[c].charge =
                               IF result \in {"pending", "error"}
                                 THEN @ ELSE result],
                        c, result)
    /\ UNCHANGED <<storageVars, mail>>

\* the 30-minute timeout fires, after the interval ticks that precede it
CeilingFires(c) ==
    /\ ~ form.gone
    /\ form.pay[c].ceiling
    /\ form.pay[c].loop = "active" => form.pay[c].polls = MaxPolls
    /\ form' = OnCeiling(form, c)
    /\ UNCHANGED <<storageVars, mail>>

\* the 2-second timeout started on approval fires: handleSignup()
AutoSubmit(c) ==
    /\ ~ form.gone
    /\ form.pay[c].autoTimers > 0
    /\ form.signups < MaxSignups
    /\ form' = HandleSignup([form EXCEPT !.pay[c].autoTimers = @ - 1,
                                          !.pay[c].autoSubmits = @ + 1])
    /\ UNCHANGED <<storageVars, mail>>

\* renderPaymentStep: Concluir Cadastro
ConcluirCadastro ==
    /\ ~ form.gone
    /\ form.step = "payment"
    /\ form.paymentStatus = "approved"
    /\ ~ form.isLoading
    /\ form.signups < MaxSignups
    /\ form' = HandleSignup(form)
    /\ UNCHANGED <<storageVars, mail>>

\* handleSignup after its await fetch: response.ok or not, or the catch
RegisterAnswer(ok) ==
    /\ ~ form.gone
    /\ form.posts > 0
    /\ form' = [form EXCEPT
                  !.posts = @ - 1,
                  !.isLoading = FALSE,
                  !.created = @ \/ ok]
    /\ UNCHANGED <<storageVars, mail>>

\* window.location.replace("/login"): the page, its state and its timers
\* are gone; what the page had sent stays sent
Redirect ==
    /\ ~ form.gone
    /\ form.created
    /\ form' = [InitForm EXCEPT
                  !.gone = TRUE,
                  !.made = form.made,
                  !.signups = form.signups,
                  !.created = form.created,
                  !.pay = [c \in PaymentIds |->
                             [NoPayment EXCEPT
                                !.create = IF form.pay[c].create = "none"
                                             THEN "none" ELSE "done",
                                !.charge = form.pay[c].charge,
                                !.loop = IF form.pay[c].loop = "none"
                                           THEN "none" ELSE "stopped",
                                !.autoSubmits = form.pay[c].autoSubmits]]]
    /\ UNCHANGED <<storageVars, mail>>

\* renderPaymentStep: the back arrow
BackToPlan ==
    /\ ~ form.gone
    /\ form.step = "payment"
    /\ form' = [form EXCEPT !.step = "plan"]
    /\ UNCHANGED <<storageVars, mail>>

\* renderPaymentStep: Voltar ao Teste Gratis
BackToTrial ==
    /\ ~ form.gone
    /\ form.step = "payment"
    /\ form' = [form EXCEPT !.planType = "trial",
                            !.step = "plan",
                            !.paymentStatus = "pending",
                            !.pixData = Null]
    /\ UNCHANGED <<storageVars, mail>>

\* renderPaymentStep: Tentar Novamente
TentarNovamente ==
    /\ ~ form.gone
    /\ RetryOffered(form)
    /\ form.made + 1 \in PaymentIds
    /\ form' = CreatePixPayment([form EXCEPT !.paymentStatus = "pending",
                                             !.pixData = Null],
                                form.paymentStatus)
    /\ UNCHANGED <<storageVars, mail>>

FormInit ==
    /\ merchants \in [{} -> StoredRows]
    /\ clock = 0
    /\ renew = [p \in RenewProcs |-> IdleRenew]
    /\ sweep = [s \in SweepProcs |-> IdleSweep]
    /\ upd = IdleUpd
    /\ susp = IdleSusp
    /\ grantedIds = {}
    /\ ops = 0
    /\ last = [op |-> "init"]
    /\ form = InitForm
    /\ mail = IdleMail

FormNext ==
    \/ OnSubmitInfo
    \/ \E plan \in {"trial", "vip"} : SelectPlan(plan)
    \/ OnSubmitPlan
    \/ \E c \in PaymentIds, success \in BOOLEAN : CreateAnswer(c, success)
    \/ \E c \in PaymentIds : PollTick(c)
    \/ \E c \in PaymentIds, result \in CheckResults : CheckAnswer(c, result)
    \/ \E c \in PaymentIds : CeilingFires(c)
    \/ \E c \in PaymentIds : AutoSubmit(c)
    \/ ConcluirCadastro
    \/ \E ok \in BOOLEAN : RegisterAnswer(ok)
    \/ Redirect
    \/ BackToPlan
    \/ BackToTrial
    \/ TentarNovamente

FormSpec == FormInit /\ [][FormNext]_vars

\* timers fire and requests are answered
FairFormSpec ==
    /\ FormSpec
    /\ \A c \in PaymentIds : /\ WF_vars(PollTick(c))
                               /\ WF_vars(CeilingFires(c))

\* ------------------------------------------------------ the email service

\* a send function up to its first await: the credentials test, the
\* template (which throws a TypeError on a merchantData whose dates are
\* not Dates) and the call of transporter.sendMail
SendMail(kind, wellFormed) ==
    /\ ops < MaxOps
    /\ ops' = ops + 1
    /\ IF ~ (mail.user /\ mail.password)
         THEN /\ mail' = mail
              /\ last' = [op |-> "mail", kind |-> kind,
                          outcome |-> "unconfigured", transport |-> FALSE,
                          result |-> MailResult("unconfigured")]
         ELSE IF ~ wellFormed
           THEN /\ mail' = mail
                /\ last' = [op |-> "mail", kind |-> kind,
                            outcome |-> "TypeError", transport |-> FALSE,
                            result |-> MailResult("TypeError")]
           ELSE /\ mail' = [mail EXCEPT !.sending[kind] = @ + 1]
                /\ last' = [op |-> "sendMail", kind |-> kind]
    /\ UNCHANGED <<merchants, clock, renew, sweep, upd, susp, grantedIds, form>>

\* a send function after its await: sendMail resolved, or it rejected and
\* the catch block runs
TransportAnswer(kind, outcome) ==
    /\ mail.sending[kind] > 0
    /\ mail' = [mail EXCEPT
                  !.sending[kind] = @ - 1,
                  !.accepted[kind] = IF outcome = "accepted" THEN @ + 1 ELSE @]
    /\ last' = [op |-> "mail", kind |-> kind,
                outcome |-> outcome, transport |-> TRUE,
                result |-> MailResult(outcome)]
    /\ UNCHANGED <<merchants, clock, renew, sweep, upd, susp, grantedIds, ops,
                   form>>

MailInit ==
    /\ merchants \in [{} -> StoredRows]
    /\ clock = 0
    /\ renew = [p \in RenewProcs |-> IdleRenew]
    /\ sweep = [s \in SweepProcs |-> IdleSweep]
    /\ upd = IdleUpd
    /\ susp = IdleSusp
    /\ grantedIds = {}
    /\ ops = 0
    /\ last = [op |-> "init"]
    /\ form = InitForm
    /\ \E u \in BOOLEAN, p \in BOOLEAN :
          mail = [IdleMail EXCEPT !.user = u, !.password = p]

MailNext ==
    \/ \E kind \in MailKinds, wellFormed \in BOOLEAN :
          SendMail(kind, wellFormed)
    \/ \E kind \in MailKinds, outcome \in TransportOutcomes :
          TransportAnswer(kind, outcome)

MailSpec == MailInit /\ [][MailNext]_vars

\* ------------------------------------------------------------------ claims

\* C1: after grantAccess(id, d) at time now on an existing merchant the row
\* has status active, paymentStatus paid, accessStartDate = now,
\* accessEndDate = now + d days = accessStartDate + d, accessDurationDays = d,
\* lastPaymentDate = now and nextPaymentDue = accessEndDate + d, whatever
\* the row held before.
GrantSetsWindow ==
    (last.op = "grant" /\ last.found) =>
        LET m == merchants[last.id]
        IN  /\ m.status = "active"
            /\ m.paymentStatus = "paid"
            /\ m.accessStartDate = last.now
            /\ m.accessEndDate = last.now + last.d
            /\ m.accessEndDate - m.accessStartDate = last.d
            /\ m.accessDurationDays = last.d
            /\ m.lastPaymentDate = last.now
            /\ m.nextPaymentDue = m.accessEndDate + last.d

\* a grant on day 1 or later to a merchant that was suspended and still
\* held an earlier window of another length
GrantOverSuspendedWitness ==
    /\ last.op = "grant"
    /\ last.found
    /\ last.now > 0
    /\ last.before.status = "payment_pending"
    /\ last.before.accessEndDate # Null
    /\ last.before.accessDurationDays # last.d

\* C2: renewAccess at time now on a merchant with end date e and duration d
\* (the stored accessDurationDays, 30 when none is recorded) sets the end
\* date to e + d when now < e and to now + d when now >= e or no end date
\* exists; the new end is never before the old one.
RenewExtendsFromMax ==
    last.op = "renew" =>
        LET e == last.before.accessEndDate
            d == IF last.before.accessDurationDays \in {Null, 0}
                   THEN 30 ELSE last.before.accessDurationDays
            new == merchants[last.id].accessEndDate
        IN  /\ (e # Null /\ last.now < e) => new = e + d
            /\ (e = Null \/ last.now >= e) => new = last.now + d
            /\ e # Null => new >= e

\* an early renewal: the window still had days left
RenewEarlyWitness ==
    /\ last.op = "renew"
    /\ last.before.accessEndDate # Null
    /\ last.now < last.before.accessEndDate
    /\ merchants[last.id].accessEndDate > last.now + last.before.accessDurationDays

\* C3 as claimed: no renewAccess write stores an accessEndDate earlier than
\* the accessEndDate stored immediately before that write, for every
\* interleaving of renewAccess calls.
RenewNeverMovesEndBack ==
    (last.op = "renew" /\ last.before.accessEndDate # Null) =>
        merchants[last.id].accessEndDate >= last.before.accessEndDate

\* C3 as amended: a renewAccess write never stores an accessEndDate earlier
\* than the one its own read returned, so a call whose read and write have
\* no other change of the merchant's accessEndDate between them does not
\* move accessEndDate backward.
RenewNeverMovesReadEndBack ==
    (last.op = "renew" /\ last.read.accessEndDate # Null) =>
        /\ merchants[last.id].accessEndDate >= last.read.accessEndDate
        /\ last.before.accessEndDate = last.read.accessEndDate =>
               merchants[last.id].accessEndDate >= last.before.accessEndDate

\* a renewal wrote over an unchanged end date that still had days left
\* while another renewal of the same merchant was between its read and write
RenewOverlapWitness ==
    /\ last.op = "renew"
    /\ last.read.accessEndDate # Null
    /\ last.before.accessEndDate = last.read.accessEndDate
    /\ last.now < last.read.accessEndDate
    /\ \E p \in RenewProcs : renew[p].pc = "write" /\ renew[p].id = last.id

\* C4: a sweep at time now changes exactly the merchants with status active
\* and a non-null accessEndDate <= now: each gets status payment_pending and
\* keeps every other field; every other merchant is left unchanged.
SweepChangesExactlyExpired ==
    [][last'.op = "sweep" =>
         merchants' =
           [m \in DOMAIN merchants |->
              IF /\ merchants[m].status = "active"
                 /\ merchants[m].accessEndDate # Null
                 /\ merchants[m].accessEndDate <= clock
                THEN [ status |-> "payment_pending",
                       paymentStatus |-> merchants[m].paymentStatus,
                       accessStartDate |-> merchants[m].accessStartDate,
                       accessEndDate |-> merchants[m].accessEndDate,
                       accessDurationDays |-> merchants[m].accessDurationDays,
                       lastPaymentDate |-> merchants[m].lastPaymentDate,
                       nextPaymentDue |-> merchants[m].nextPaymentDue,
                       monthlyFee |-> merchants[m].monthlyFee ]
                ELSE merchants[m]]]_vars

\* a sweep demoted one merchant whose window ended today and left another,
\* still inside its window, active
SweepMixedWitness ==
    /\ last.op = "sweep"
    /\ last.ret = 1
    /\ \E m \in DOMAIN merchants : /\ merchants[m].status = "payment_pending"
                                    /\ merchants[m].accessEndDate = clock
    /\ \E m \in DOMAIN merchants : /\ merchants[m].status = "active"
                                    /\ merchants[m].accessEndDate > clock

\* C5: the sweep sets payment_pending only on a merchant whose window has
\* elapsed at the moment of that update; a merchant renewed or re-granted
\* between the sweep's select and its update is not demoted.
SweepDemotesOnlyElapsed ==
    last.op = "sweepUpdate" =>
        /\ merchants[last.id].accessEndDate # Null
        /\ merchants[last.id].accessEndDate <= clock

\* C6: a sweep that directly follows a sweep, with no other operation and
\* no clock advance in between, changes no merchant and returns 0.
SweepTwiceIsNoOp ==
    [][(last.op = "sweep" /\ last'.op = "sweep") =>
          (merchants' = merchants /\ last'.ret = 0)]_vars

\* the second of two successive sweeps, the first of which demoted a merchant
SweepTwiceWitness ==
    /\ last.op = "sweep"
    /\ last.after = "sweep"
    /\ ops = 2
    /\ \E m \in DOMAIN merchants : /\ merchants[m].status = "payment_pending"
                                    /\ merchants[m].accessEndDate <= clock

\* C7: every sweep invocation returns the number of merchants whose status
\* that invocation changed from active to payment_pending, also when it
\* overlaps another sweep.
SweepReturnsTransitioned ==
    last.op = "sweep" => last.ret = last.transitioned

\* C8: a merchant is live iff status = active and (accessEndDate is null or
\* accessEndDate > now), so a merchant whose accessEndDate = now is expired;
\* activeAccess is the number of live merchants.
ActiveAccessCountsLive ==
    last.op = "accessStatus" =>
        /\ last.ret.activeAccess =
             Cardinality({ m \in DOMAIN merchants :
                             merchants[m].status = "active" })
             - Cardinality({ m \in DOMAIN merchants :
                               /\ merchants[m].status = "active"
                               /\ merchants[m].accessEndDate # Null
                               /\ merchants[m].accessEndDate <= last.now })
        /\ \A m \in DOMAIN merchants :
              merchants[m].accessEndDate = last.now =>
                  ~ ActiveAccessFilter(merchants[m], last.now)

\* the counts were taken while one active merchant's window ended exactly
\* now and another active merchant was still inside its window
ActiveAccessBoundaryWitness ==
    /\ last.op = "accessStatus"
    /\ last.ret.activeAccess = 1
    /\ \E m \in DOMAIN merchants : /\ merchants[m].status = "active"
                                    /\ merchants[m].accessEndDate = last.now
    /\ \E m \in DOMAIN merchants : /\ merchants[m].status = "active"
                                    /\ merchants[m].accessEndDate > last.now

\* C9: a merchant whose accessStartDate and accessEndDate are both set has
\* accessEndDate >= accessStartDate.
EndNotBeforeStart ==
    \A m \in DOMAIN merchants :
        (merchants[m].accessStartDate # Null /\ merchants[m].accessEndDate # Null)
            => merchants[m].accessEndDate >= merchants[m].accessStartDate

\* a merchant granted access after day 0 and then renewed: its window is
\* longer than one grant can make it
RenewedWindowWitness ==
    \E m \in DOMAIN merchants :
        /\ merchants[m].accessStartDate > 0
        /\ merchants[m].accessDurationDays \in Durations
        /\ merchants[m].accessEndDate =
               merchants[m].accessStartDate + 2 * merchants[m].accessDurationDays

\* C10: a merchant's status becomes payment_pending only through the expiry
\* sweep acting on an elapsed window or through suspendAccess (the failed
\* or declined payment); no other step moves a merchant into payment_pending.
PendingOnlyBySweepOrSuspend ==
    [][\A m \in DOMAIN merchants :
         (merchants[m].status # "payment_pending"
            /\ merchants'[m].status = "payment_pending")
         => \/ last'.op = "suspend" /\ last'.id = m
            \/ /\ last'.op = "sweepUpdate" /\ last'.id = m
               /\ merchants[m].accessEndDate # Null
               /\ merchants[m].accessEndDate <= clock]_vars

\* C11: grantAccess called with a merchant id that does not exist returns
\* null, creates no merchant record and changes no existing record.
GrantMissingChangesNothing ==
    [][(last'.op = "grant" /\ last'.id \notin DOMAIN merchants) =>
          /\ merchants' = merchants
          /\ ~ last'.found
          /\ last'.ret = Null]_vars

\* a grant for an id that does not exist, made while another merchant does
GrantMissingWitness ==
    /\ last.op = "grant"
    /\ last.id \notin DOMAIN merchants
    /\ last.ret = Null
    /\ DOMAIN merchants # {}

\* C12: renewAccess and suspendAccess called with a merchant id that does
\* not exist return the not-found signal (null from renewAccess, undefined
\* from suspendAccess), schedule no later write, and leave the set of
\* merchant records and every existing record unchanged.
MissingIdChangesNothing ==
    [][/\ (last'.op \in {"renewRead", "renewNotFound"}
             /\ last'.id \notin DOMAIN merchants) =>
            /\ merchants' = merchants
            /\ renew' = renew
            /\ last'.op = "renewNotFound"
            /\ last'.ret = Null
       /\ (last'.op = "suspend" /\ last'.id \notin DOMAIN merchants) =>
            /\ merchants' = merchants
            /\ ~ susp'.found
       /\ (last'.op = "suspendReturn" /\ ~ last'.found) =>
            /\ merchants' = merchants
            /\ last'.ret = Undefined]_vars

\* renewAccess returned null for an id that does not exist while a
\* suspendAccess for a missing id is between its UPDATE and its return,
\* and another merchant exists
MissingIdWitness ==
    /\ last.op = "renewNotFound"
    /\ last.ret = Null
    /\ susp.pc = "return"
    /\ ~ susp.found
    /\ susp.id \notin DOMAIN merchants
    /\ DOMAIN merchants # {}

\* C13: suspendAccess on an existing merchant sets status = payment_pending
\* and leaves accessStartDate, accessEndDate, accessDurationDays,
\* paymentStatus, lastPaymentDate, nextPaymentDue and monthlyFee, and every
\* other merchant, exactly as they were.
SuspendChangesOnlyStatus ==
    [][(last'.op = "suspend" /\ last'.id \in DOMAIN merchants) =>
          LET old == merchants[last'.id]
          IN  merchants' =
                [merchants EXCEPT ![last'.id] =
                   [ status |-> "payment_pending",
                     paymentStatus |-> old.paymentStatus,
                     accessStartDate |-> old.accessStartDate,
                     accessEndDate |-> old.accessEndDate,
                     accessDurationDays |-> old.accessDurationDays,
                     lastPaymentDate |-> old.lastPaymentDate,
                     nextPaymentDue |-> old.nextPaymentDue,
                     monthlyFee |-> old.monthlyFee ]]]_vars

\* an active, paid merchant was suspended while its window still had days
\* left
SuspendInsideWindowWitness ==
    /\ last.op = "suspend"
    /\ last.found
    /\ last.before.status = "active"
    /\ last.before.paymentStatus = "paid"
    /\ last.before.accessEndDate > clock
    /\ merchants[last.id].status = "payment_pending"
    /\ merchants[last.id].accessEndDate = last.before.accessEndDate

\* C14: renewAccess on an existing merchant, from any prior status, sets
\* status = active, paymentStatus = paid, lastPaymentDate = now and
\* nextPaymentDue = new accessEndDate + duration (the stored
\* accessDurationDays, 30 when none is recorded); it keeps accessStartDate
\* when one is set and sets it to now otherwise; accessDurationDays and
\* monthlyFee stay as they were.
RenewSetsBillingFields ==
    last.op = "renew" =>
        LET m == merchants[last.id]
            b == last.before
            d == IF b.accessDurationDays \in {Null, 0}
                   THEN 30 ELSE b.accessDurationDays
        IN  /\ m.status = "active"
            /\ m.paymentStatus = "paid"
            /\ m.lastPaymentDate = last.now
            /\ m.nextPaymentDue = m.accessEndDate + d
            /\ m.accessStartDate = IF b.accessStartDate # Null
                                     THEN b.accessStartDate ELSE last.now
            /\ m.accessDurationDays = b.accessDurationDays
            /\ m.monthlyFee = b.monthlyFee

\* a renewal, on a later day, of a merchant that had been set inactive
\* after its window had started
RenewInactiveWitness ==
    /\ last.op = "renew"
    /\ last.before.status = "inactive"
    /\ last.before.accessStartDate # Null
    /\ last.now > last.before.accessStartDate
    /\ merchants[last.id].status = "active"

\* C15: for a merchant granted access for d days at time t whose record no
\* later grant, renewal or other request has written: a sweep run before
\* t + d leaves the merchant active and its record as it was, and the first
\* sweep run at a time >= t + d sets its status to payment_pending.
SweepDemotesAtEndOfGrant ==
    [][last'.op = "sweep" =>
         \A m \in grantedIds :
            LET t == merchants[m].accessStartDate
                d == merchants[m].accessDurationDays
            IN  IF clock < t + d
                  THEN /\ merchants'[m] = merchants[m]
                       /\ merchants'[m].status = "active"
                       /\ m \in grantedIds'
                  ELSE /\ merchants[m].status = "active"
                       /\ merchants'[m].status = "payment_pending"]_vars

\* a sweep run on the very day one granted merchant's window ended demoted
\* it, and left active a granted merchant still inside its window
SweepAtEndOfGrantWitness ==
    /\ last.op = "sweep"
    /\ last.ret = 1
    /\ \E m \in DOMAIN merchants :
          /\ merchants[m].status = "payment_pending"
          /\ merchants[m].accessStartDate # Null
          /\ merchants[m].lastPaymentDate = merchants[m].accessStartDate
          /\ merchants[m].accessStartDate + merchants[m].accessDurationDays
                = clock
    /\ \E m \in grantedIds : /\ merchants[m].status = "active"
                              /\ merchants[m].accessEndDate > clock

\* C16: the grantAccess write is atomic for readers.  A grant step sets all
\* of status, paymentStatus, accessStartDate, accessEndDate,
\* accessDurationDays, lastPaymentDate, nextPaymentDue (and monthlyFee when
\* given) in one step and nothing else; until another request writes the
\* record, every read of it (the SELECT of renewMerchantAccess, the
\* getMerchant of updateMerchant and of suspendMerchantAccess, the grant's
\* own RETURNING) observes all of those fields as the grant set them,
\* never a mix of old and new values.
GrantWriteIsAtomic ==
    [][LET Whole(r) ==
               /\ r.status = "active"
               /\ r.paymentStatus = "paid"
               /\ r.accessStartDate # Null
               /\ r.accessDurationDays \in Durations
               /\ r.accessEndDate = r.accessStartDate + r.accessDurationDays
               /\ r.lastPaymentDate = r.accessStartDate
               /\ r.nextPaymentDue = r.accessEndDate + r.accessDurationDays
       IN  /\ \A m \in grantedIds' : Whole(merchants'[m])
           /\ \A m \in grantedIds' \cap DOMAIN merchants :
                 merchants'[m] # merchants[m] =>
                    /\ last'.op = "grant"
                    /\ last'.id = m
                    /\ last'.ret = merchants'[m]
                    /\ merchants'[m].accessStartDate = clock
                    /\ merchants'[m].accessDurationDays = last'.d
                    /\ merchants'[m].monthlyFee =
                          IF last'.fee # Undefined THEN last'.fee
                                                  ELSE merchants[m].monthlyFee
           /\ (last'.op = "renewRead" /\ last'.id \in grantedIds) =>
                 \A p \in RenewProcs :
                    renew'[p] # renew[p] =>
                       /\ Whole(renew'[p].merchant)
                       /\ renew'[p].merchant = merchants[last'.id]
           /\ (last'.op = "updateRead" /\ last'.id \in grantedIds) =>
                 /\ Whole(upd'.existingMerchant)
                 /\ upd'.existingMerchant = merchants[last'.id]
           /\ (last'.op = "suspendReturn" /\ last'.id \in grantedIds) =>
                 /\ Whole(last'.ret)
                 /\ last'.ret = merchants[last'.id]]_vars

\* a renewal's SELECT read a record that a grant made on this day, after
\* day 0, had just rewritten
GrantThenReadWitness ==
    /\ last.op = "renewRead"
    /\ last.id \in grantedIds
    /\ clock > 0
    /\ \E p \in RenewProcs :
          /\ renew[p].pc = "write"
          /\ renew[p].id = last.id
          /\ renew[p].merchant.accessStartDate = clock

\* C17: in the VIP signup flow the merchant record is created before the
\* PIX charge is created (so a rejected, cancelled or timed-out charge
\* leaves an already created merchant behind), and polling follows the
\* creation of the charge.
MerchantCreatedBeforeCharge ==
    \A c \in PaymentIds :
        /\ form.pay[c].create # "none" => form.created
        /\ form.pay[c].loop # "none" => form.pay[c].create = "done"

\* C18: every polling loop started by startPaymentStatusCheck eventually
\* stops scheduling status checks: on an approved, rejected or cancelled
\* answer, and otherwise at the latest when the 30-minute ceiling fires,
\* even if the gateway answers pending forever or every check fails.
PollingLoopStops ==
    \A c \in PaymentIds :
        (form.pay[c].loop = "active") ~> (form.pay[c].loop = "stopped")

\* the ceiling stopped a loop whose charge never got a terminal answer
CeilingStoppedLoopWitness ==
    \E c \in PaymentIds :
        /\ form.pay[c].loop = "stopped"
        /\ form.pay[c].charge = "pending"
        /\ ~ form.pay[c].ceiling
        /\ ~ form.gone

\* C19: when the 30-minute ceiling fires while the form's payment state is
\* processing, the payment state becomes failed and the retry action of a
\* rejected payment is presented.
CeilingFailsProcessingPayment ==
    [][\A c \in PaymentIds :
         (CeilingFires(c) /\ form.paymentStatus = "processing") =>
            /\ form'.paymentStatus = "failed"
            /\ form'.step = "payment" => RetryOffered(form')]_vars

\* C20: when a status check answers rejected or cancelled, the polling loop
\* stops and the payment state becomes failed, with the retry action
\* rendered on the payment step; no registration request is or was
\* submitted for that charge; Tentar Novamente calls createPixPayment for
\* a fresh charge, and a charge that is created starts a new polling loop.
RejectedStopsAndOffersRetry ==
    [][/\ \A c \in PaymentIds, r \in {"rejected", "cancelled"} :
            CheckAnswer(c, r) =>
               /\ form'.pay[c].loop = "stopped"
               /\ form'.paymentStatus = "failed"
               /\ form'.step = "payment" => RetryOffered(form')
       /\ \A c \in PaymentIds :
            form'.pay[c].charge \in {"rejected", "cancelled"} =>
               /\ form'.pay[c].autoTimers = 0
               /\ form'.pay[c].autoSubmits = 0
       /\ TentarNovamente =>
            /\ form'.made = form.made + 1
            /\ form.pay[form'.made].create = "none"
            /\ form'.pay[form'.made].create = "inflight"
       /\ \A c \in PaymentIds :
            CreateAnswer(c, TRUE) =>
               /\ form.pay[c].loop = "none"
               /\ form'.pay[c].loop = "active"
               /\ form'.pay[c].charge = "pending"
               /\ form'.pay[c].ceiling]_vars

\* the first charge was cancelled, its loop has stopped, and the charge of
\* a second createPixPayment call is being polled
RetryAfterCancelledWitness ==
    /\ form.pay[1].charge = "cancelled"
    /\ form.pay[1].loop = "stopped"
    /\ form.pay[1].inflight = 0
    /\ form.pay[2].loop = "active"
    /\ form.pay[2].polls > 0
    /\ form.step = "payment"
    /\ form.paymentStatus = "processing"
    /\ form.pixData = 2

\* C21: a status check that ends in an error (failed fetch, unparsable
\* answer) or in an answer without a terminal status counts as still
\* pending for that tick: the payment state is not changed, the polling
\* loop and its ceiling stay as they were, nothing is submitted, and every
\* tick of the interval sends a status check whatever came back before.
ErrorCountsAsPending ==
    [][\A c \in PaymentIds :
         /\ \A r \in {"error", "pending"} :
               CheckAnswer(c, r) =>
                  /\ form'.paymentStatus = form.paymentStatus
                  /\ form'.pay[c].loop = form.pay[c].loop
                  /\ form'.pay[c].ceiling = form.pay[c].ceiling
                  /\ form'.pay[c].polls = form.pay[c].polls
                  /\ form'.pay[c].autoTimers = form.pay[c].autoTimers
                  /\ form'.signups = form.signups
         /\ PollTick(c) =>
               form'.pay[c].inflight = form.pay[c].inflight + 1]_vars

\* a check of a pending charge has come back without a terminal status,
\* the form is still processing and a later tick's check is in flight
CheckAfterErrorWitness ==
    \E c \in PaymentIds :
        /\ form.pay[c].loop = "active"
        /\ form.pay[c].charge = "pending"
        /\ form.pay[c].polls >= 2
        /\ form.pay[c].inflight = 1
        /\ form.paymentStatus = "processing"
        /\ form.step = "payment"

\* C22: leaving the payment step while a polling loop runs (the back arrow,
\* or Voltar ao Teste Gratis) cancels the loop; while the form is away from
\* the payment step no status answer changes the payment state or schedules
\* a registration request; and leaving does not set the payment state to
\* failed.
LeavingCancelsPolling ==
    [][/\ (BackToPlan \/ BackToTrial) =>
            /\ \A c \in PaymentIds : form'.pay[c].loop # "active"
            /\ form'.paymentStatus = "failed" => form.paymentStatus = "failed"
       /\ \A c \in PaymentIds, r \in CheckResults :
            (CheckAnswer(c, r) /\ form.step # "payment") =>
               /\ form'.paymentStatus = form.paymentStatus
               /\ form'.pay[c].autoTimers = form.pay[c].autoTimers]_vars

\* C23: sendWelcomeEmail, sendPaymentConfirmationEmail and
\* sendRenewalConfirmationEmail never throw to their caller; with a
\* credential missing, or when the template or the transport fails, they
\* return success = false with an error text, and they return
\* success = true only when the transport accepted the message.
MailNeverThrows ==
    last.op = "mail" =>
        /\ ~ last.result.threw
        /\ last.result.ret.success <=>
              (last.transport /\ last.outcome = "accepted")
        /\ last.result.ret.success => mail.accepted[last.kind] > 0
        /\ ~ last.result.ret.success =>
              /\ "error" \in DOMAIN last.result.ret
              /\ last.result.ret.error # ""
        /\ ~ (mail.user /\ mail.password) =>
              /\ ~ last.result.ret.success
              /\ ~ last.transport

\* a send call whose sendMail promise rejected has returned to its caller
\* while the same function's other call is still awaiting the transport
TransportFailedWitness ==
    /\ last.op = "mail"
    /\ last.transport
    /\ last.outcome \in {"Error", "other"}
    /\ ~ last.result.threw
    /\ ~ last.result.ret.success
    /\ mail.sending[last.kind] > 0

\* C24: suspension keeps what renewal computes from: a merchant with access
\* end date e and duration d that was suspended and is then renewed at time
\* now is active afterwards, with accessEndDate = e + d when now < e (no
\* remaining time is lost) and accessEndDate = now + d when now >= e.
RenewAfterSuspendKeepsTime ==
    (/\ last.op = "renew"
     /\ last.read.status = "payment_pending"
     /\ last.read.accessEndDate # Null
     /\ last.read.accessDurationDays # Null) =>
        LET m == merchants[last.id]
            e == last.read.accessEndDate
            d == last.read.accessDurationDays
        IN  /\ m.status = "active"
            /\ last.now < e => m.accessEndDate = e + d
            /\ last.now >= e => m.accessEndDate = last.now + d

\* a merchant suspended inside its window (the sweep demotes no merchant
\* before its end date) was renewed before the window's end
RenewSuspendedEarlyWitness ==
    /\ last.op = "renew"
    /\ last.read.status = "payment_pending"
    /\ last.read.accessEndDate # Null
    /\ last.read.accessDurationDays # Null
    /\ last.now < last.read.accessEndDate
    /\ merchants[last.id].accessEndDate > last.now + last.read.accessDurationDays

\* C25: grantAccess stores the given monthlyFee whenever the argument is
\* supplied, 0 included, and leaves the stored monthlyFee as it was when
\* the argument is omitted.
GrantOverwritesFeeIfGiven ==
    (last.op = "grant" /\ last.found) =>
        merchants[last.id].monthlyFee =
            IF last.fee # Undefined THEN last.fee ELSE last.before.monthlyFee

\* a grant with monthlyFee 0 replaced a stored fee that was not 0
GrantFeeZeroWitness ==
    /\ last.op = "grant"
    /\ last.found
    /\ last.fee = 0
    /\ last.before.monthlyFee = DefaultMonthlyFee
    /\ merchants[last.id].monthlyFee = 0

\* C26: submitting the plan step with the trial plan selected sends the
\* registration request in that same step: the form stays on the plan step,
\* no PIX charge is created and no polling loop is started by it.
TrialSubmitRegistersAtOnce ==
    [][(OnSubmitPlan /\ form.planType = "trial") =>
          /\ form'.signups = form.signups + 1
          /\ form'.posts = form.posts + 1
          /\ form'.step = "plan"
          /\ form'.made = form.made
          /\ form'.pay = form.pay]_vars

\* a trial signup: one registration request is awaiting its answer and the
\* form never created a charge
TrialRequestSentWitness ==
    /\ form.planType = "trial"
    /\ form.step = "plan"
    /\ form.signups = 1
    /\ form.posts = 1
    /\ form.isLoading
    /\ form.made = 0
    /\ \A c \in PaymentIds : form.pay[c] = NoPayment

\* C27: within one signup form at most one registration request is submitted
\* for an approved payment: no charge ever has more than one auto-submit
\* scheduled or made, however the status checks overlap, and Concluir
\* Cadastro submits only when no auto-submit is scheduled or was made.
OneRegistrationPerApproval ==
    [][/\ \A c \in PaymentIds :
            form'.pay[c].autoTimers + form'.pay[c].autoSubmits <= 1
       /\ ConcluirCadastro =>
            \A c \in PaymentIds : /\ form.pay[c].autoTimers = 0
                                  /\ form.pay[c].autoSubmits = 0]_vars

\* C28: an updateMerchant call whose updates hold no access or billing field
\* never changes the stored status, paymentStatus, accessStartDate or
\* accessEndDate of the merchant, whatever grant, renewal, suspension or
\* sweep step was committed between its read and its write.
UpdateKeepsLifecycleFields ==
    [][(/\ UpdateWrite
        /\ DOMAIN upd.updates \cap DOMAIN upd.existingMerchant = {}) =>
          \A f \in {"status", "paymentStatus",
                    "accessStartDate", "accessEndDate"} :
              merchants'[upd.id][f] = merchants[upd.id][f]]_vars

\* C29: the two storage backends are interchangeable for the expiry sweep:
\* run on the same merchant records at the same time, processExpiredAccess
\* of the SQLite backend and of the PostgreSQL backend return the same count
\* and leave every merchant with the same status.
BackendsAgreeOnSweep ==
    LET pg == PostgresProcessExpiredAccess(merchants, clock)
        sqlite == SQLiteProcessExpiredAccess(merchants, clock)
    IN  /\ pg.ret = sqlite.ret
        /\ \A m \in DOMAIN merchants :
              pg.merchants[m].status = sqlite.merchants[m].status

\* C30: at any moment at most one polling loop of a signup form is active:
\* when createPixPayment starts a loop, every loop started before it has
\* stopped.
AtMostOneActiveLoop ==
    Cardinality({ c \in PaymentIds : form.pay[c].loop = "active" }) <= 1

====
